---- MODULE Spec2Model ----
(***************************************************************************)
(* A model of code/peak_function.py: the trait extraction of dynamic       *)
(* perifusion curves (basal secretion, peak AUC, stimulation / inhibition  *)
(* index).                                                                 *)
(*                                                                         *)
(* Numbers.  The program computes with IEEE doubles.  The model computes   *)
(* with exact rationals <<n, d>> (d > 0, lowest terms) and keeps the       *)
(* special values of the program as pairs with d <= 0: NaN (numpy.nan),    *)
(* PosInf / NegInf (numpy division by zero) and NA (pandas.NA).  Rounding  *)
(* of doubles is not modelled.                                             *)
(*                                                                         *)
(* Indices.  Python sequences are 0-based, the sequences of the model are  *)
(* 1-based: index i of the model is index i - 1 of the program, and the    *)
(* program's "peak_start is None" is peak_start = 0 in the model.          *)
(*                                                                         *)
(* Text.  A Python str that the program takes apart (a range               *)
(* specification, a column name that is lower-cased and searched) is a     *)
(* sequence of one-character strings.                                      *)
(***************************************************************************)
EXTENDS Integers, Sequences, FiniteSets, TLC

VARIABLES
  pc,            \* where the running call stands
  args,          \* the arguments of the running call of a single function
  ret,           \* what that call returned
  input_df,      \* traits_for_all: the input table
  parameter_df,  \* traits_for_all: the phase-parameter table
  row_i,         \* traits_for_all: the parameter row being processed
  donor_j,       \* traits_for_all: the donor being processed
  results,       \* traits_for_all: the column being built for the row
  si_or_ii,      \* traits_for_all: the index column being built for the row
  all_results,   \* traits_for_all: the columns built so far, in insertion order
  raised         \* the exception that ended the call, "" when none

vars == <<pc, args, ret, input_df, parameter_df, row_i, donor_j, results, si_or_ii, all_results, raised>>
traits_vars == <<input_df, parameter_df, row_i, donor_j, results, si_or_ii, all_results>>

\* ------------------------------------------------------------------------
\* Numbers
\* ------------------------------------------------------------------------

NaN == <<0, 0>>
PosInf == <<1, 0>>
NegInf == <<-1, 0>>
NA == <<0, -1>>

IsNum(v) == v[2] > 0

Abs(n) == IF n < 0 THEN -n ELSE n

RECURSIVE GCD(_, _)
GCD(a, b) == IF b = 0 THEN a ELSE GCD(b, a % b)

\* the rational n / d in lowest terms, d > 0
Norm(n, d) ==
  LET g == GCD(Abs(n), d)
  IN  <<n \div g, d \div g>>

R(n) == <<n, 1>>
Q(n, d) == Norm(n, d)
Zero == <<0, 1>>

RAdd(a, b) ==
  IF ~(IsNum(a) /\ IsNum(b)) THEN NaN
  ELSE LET g == GCD(a[2], b[2])
       IN  Norm(a[1] * (b[2] \div g) + b[1] * (a[2] \div g), (a[2] \div g) * b[2])

RNeg(a) == IF IsNum(a) THEN <<-a[1], a[2]>> ELSE NaN

RSub(a, b) == RAdd(a, RNeg(b))

RMul(a, b) ==
  IF ~(IsNum(a) /\ IsNum(b)) THEN NaN
  ELSE LET g1 == GCD(Abs(a[1]), b[2])
           g2 == GCD(Abs(b[1]), a[2])
       IN  Norm((a[1] \div g1) * (b[1] \div g2), (a[2] \div g2) * (b[2] \div g1))

\* numpy float64 division: x / 0 is +-inf, 0 / 0 is nan (a warning, no error)
RDiv(a, b) ==
  IF ~(IsNum(a) /\ IsNum(b)) THEN NaN
  ELSE IF b[1] = 0
       THEN (IF a[1] > 0 THEN PosInf ELSE IF a[1] < 0 THEN NegInf ELSE NaN)
       ELSE IF b[1] > 0 THEN RMul(a, <<b[2], b[1]>>)
            ELSE RMul(a, <<-b[2], -b[1]>>)

RAbs(a) == IF IsNum(a) THEN <<Abs(a[1]), a[2]>> ELSE NaN

\* comparisons: every comparison with NaN is false
RLt(a, b) ==
  /\ IsNum(a)
  /\ IsNum(b)
  /\ LET g == GCD(a[2], b[2])
     IN  a[1] * (b[2] \div g) < b[1] * (a[2] \div g)

RGt(a, b) == RLt(b, a)
RLe(a, b) == IsNum(a) /\ IsNum(b) /\ ~RLt(b, a)
RGe(a, b) == RLe(b, a)
REq(a, b) == IsNum(a) /\ IsNum(b) /\ a = b

\* Tolerance for floating point comparisons, 1e-5
FLOAT_TOLERANCE == Q(1, 100000)

\* ------------------------------------------------------------------------
\* Text: str.split, the "in" test and int() on sequences of characters
\* ------------------------------------------------------------------------

DigitChars == <<"0", "1", "2", "3", "4", "5", "6", "7", "8", "9">>

IsDigit(c) == \E d \in 1..10 : DigitChars[d] = c

DigitValue(c) == (CHOOSE d \in 1..10 : DigitChars[d] = c) - 1

\* c in s
HasChar(s, c) == \E i \in 1..Len(s) : s[i] = c

\* s.split(sep) for a one-character sep: the pieces between the separators,
\* empty pieces included
RECURSIVE SplitFrom(_, _, _, _)
SplitFrom(s, sep, i, piece) ==
  IF i > Len(s) THEN <<piece>>
  ELSE IF s[i] = sep THEN <<piece>> \o SplitFrom(s, sep, i + 1, <<>>)
       ELSE SplitFrom(s, sep, i + 1, Append(piece, s[i]))

PySplit(s, sep) == SplitFrom(s, sep, 1, <<>>)

\* int(s) of a text of decimal digits; -1 stands for the ValueError that int()
\* raises on any other text (the empty text included)
RECURSIVE DigitsValue(_, _, _)
DigitsValue(s, i, acc) ==
  IF i > Len(s) THEN acc ELSE DigitsValue(s, i + 1, 10 * acc + DigitValue(s[i]))

PyInt(s) ==
  IF s # <<>> /\ \A i \in 1..Len(s) : IsDigit(s[i]) THEN DigitsValue(s, 1, 0) ELSE -1

\* ------------------------------------------------------------------------
\* parse_basal_secretion and parse_peak_and_baseline_region
\* ------------------------------------------------------------------------

\* mutant of XBetween: the end of an interval is excluded
XBetween_EndExcluded(entire_x, start, end) ==
  SelectSeq(entire_x, LAMBDA t : RGe(t, R(start)) /\ RLt(t, R(end)))

\* entire_x[(entire_x >= start) & (entire_x <= end)]
XBetween(entire_x, start, end) ==
  SelectSeq(entire_x, LAMBDA t : RGe(t, R(start)) /\ RLe(t, R(end)))

\* entire_x[entire_x == time_point]
XEqual(entire_x, time_point) == SelectSeq(entire_x, LAMBDA t : REq(t, R(time_point)))

Raise(what) == [error |-> what, value |-> <<>>]
Return(v) == [error |-> "", value |-> v]

\* lines 56-62: the time points one piece of a basal range adds
BasalPiece(entire_x, per_range) ==
  IF HasChar(per_range, "-")
  THEN LET parts == PySplit(per_range, "-")
       IN  IF Len(parts) # 2 \/ PyInt(parts[1]) < 0 \/ PyInt(parts[2]) < 0
           THEN Raise("ValueError")
           ELSE Return(XBetween(entire_x, PyInt(parts[1]), PyInt(parts[2])))
  ELSE IF PyInt(per_range) < 0 THEN Raise("ValueError")
       ELSE Return(XEqual(entire_x, PyInt(per_range)))

\* lines 53-62: the loop over the pieces of basal_range, from piece k on
RECURSIVE BasalPieces(_, _, _, _)
BasalPieces(entire_x, ranges, k, time_points) ==
  IF k > Len(ranges) THEN Return(time_points)
  ELSE LET piece == BasalPiece(entire_x, ranges[k])
       IN  IF piece.error # "" THEN piece
           ELSE BasalPieces(entire_x, ranges, k + 1, time_points \o piece.value)

basal_time_points(entire_x, basal_range) ==
  BasalPieces(entire_x, PySplit(basal_range, "|"), 1, <<>>)

\* lines 112-118: the time points one piece of baseline_points adds
BaselinePiece(entire_x, per_range) ==
  IF HasChar(per_range, "-")
  THEN LET parts == PySplit(per_range, "-")
       IN  IF Len(parts) # 2 \/ PyInt(parts[1]) < 0 \/ PyInt(parts[2]) < 0
           THEN Raise("ValueError")
           ELSE Return(XBetween(entire_x, PyInt(parts[1]), PyInt(parts[2])))
  ELSE IF PyInt(per_range) < 0 THEN Raise("ValueError")
       ELSE Return(XEqual(entire_x, PyInt(per_range)))

\* lines 109-118: the loop over the pieces of baseline_points, from piece k on
RECURSIVE BaselinePieces(_, _, _, _)
BaselinePieces(entire_x, ranges, k, time_points) ==
  IF k > Len(ranges) THEN Return(time_points)
  ELSE LET piece == BaselinePiece(entire_x, ranges[k])
       IN  IF piece.error # "" THEN piece
           ELSE BaselinePieces(entire_x, ranges, k + 1, time_points \o piece.value)

baseline_time_points(entire_x, baseline_points) ==
  BaselinePieces(entire_x, PySplit(baseline_points, "|"), 1, <<>>)

\* entire_x.isin(time_points), as the indices of the selected rows
IsIn(entire_x, time_points) ==
  {i \in 1..Len(entire_x) : \E k \in 1..Len(time_points) : time_points[k] = entire_x[i]}

\* np.mean of a pandas Series (Series.mean: missing values are skipped, the
\* mean of nothing is NaN), over the rows of entire_y in the index set rows
RECURSIVE SumRows(_, _)
SumRows(entire_y, rows) ==
  IF rows = {} THEN Zero
  ELSE LET i == CHOOSE j \in rows : TRUE
       IN  RAdd(entire_y[i], SumRows(entire_y, rows \ {i}))

SeriesMean(entire_y, rows) ==
  LET present == {i \in rows : IsNum(entire_y[i])}
  IN  IF present = {} THEN NaN
      ELSE RDiv(SumRows(entire_y, present), R(Cardinality(present)))

\* mutant of parse_basal_secretion: the sum of the selected values is divided
\* by the number of time points the pieces collected, repeated ones included
parse_basal_secretion_PerCollectedPoint(entire_x, entire_y, basal_range) ==
  LET time_points == basal_time_points(entire_x, basal_range)
  IN  IF time_points.error # "" THEN time_points
      ELSE Return(RDiv(SumRows(entire_y, IsIn(entire_x, time_points.value)),
                       R(Len(time_points.value))))

\* lines 53-65
parse_basal_secretion(entire_x, entire_y, basal_range) ==
  LET time_points == basal_time_points(entire_x, basal_range)
  IN  IF time_points.error # "" THEN time_points
      ELSE Return(SeriesMean(entire_y, IsIn(entire_x, time_points.value)))

\* lines 123-126: the rows of the peak window, in the order of the table
PeakWindow(entire_x, start, end) ==
  SelectSeq([i \in 1..Len(entire_x) |-> i],
            LAMBDA i : RGe(entire_x[i], R(start)) /\ RLe(entire_x[i], R(end)))

\* mutant of corrected_curve: the sign of the peak is ignored
corrected_curve_SignIgnored(y_curve, y_baseline, negative_peak) ==
  [i \in 1..Len(y_curve) |-> RSub(y_curve[i], y_baseline)]

\* lines 129-132
corrected_curve(y_curve, y_baseline, negative_peak) ==
  [i \in 1..Len(y_curve) |->
     IF negative_peak THEN RSub(y_baseline, y_curve[i]) ELSE RSub(y_curve[i], y_baseline)]

\* lines 108-134: <<x_curve, corrected_curve, y_baseline>>
parse_peak_and_baseline_region(entire_x, entire_y, peak_range, baseline_points, negative_peak) ==
  LET time_points == baseline_time_points(entire_x, baseline_points)
      parts == PySplit(peak_range, "-")
  IN  IF time_points.error # "" THEN time_points
      ELSE IF Len(parts) # 2 \/ PyInt(parts[1]) < 0 \/ PyInt(parts[2]) < 0
           THEN Raise("ValueError")
           ELSE LET y_baseline == SeriesMean(entire_y, IsIn(entire_x, time_points.value))
                    rows == PeakWindow(entire_x, PyInt(parts[1]), PyInt(parts[2]))
                    x_curve == [k \in 1..Len(rows) |-> entire_x[rows[k]]]
                    y_curve == [k \in 1..Len(rows) |-> entire_y[rows[k]]]
                IN  Return(<<x_curve, corrected_curve(y_curve, y_baseline, negative_peak),
                             y_baseline>>)

\* ------------------------------------------------------------------------
\* AUC_from_a_region (the peak integrator)
\* ------------------------------------------------------------------------

\* lines 203-210: one iteration of the scan, on a sample that is not above
\* the tolerance: the open run, if any, is closed and kept when long enough
CloseRegion(regions, peak_start, i, min_peak_length) ==
  IF peak_start # 0 /\ i - peak_start >= min_peak_length
  THEN Append(regions, <<peak_start, i - 1>>)
  ELSE regions

\* mutant of TrailingRegion: the run open at the end of the curve is forgotten
TrailingRegion_Forgotten(regions, peak_start, n, min_peak_length) == regions

\* lines 212-214: the run that extends to the end of the curve
TrailingRegion(regions, peak_start, n, min_peak_length) ==
  IF peak_start # 0 /\ (n + 1) - peak_start >= min_peak_length
  THEN Append(regions, <<peak_start, n>>)
  ELSE regions

\* lines 200-214: the scan, from sample i on, with the open run peak_start
RECURSIVE ScanRegions(_, _, _, _, _)
ScanRegions(y, i, peak_start, regions, min_peak_length) ==
  IF i > Len(y)
  THEN TrailingRegion(regions, peak_start, Len(y), min_peak_length)
  ELSE IF RGt(y[i], FLOAT_TOLERANCE)
       THEN ScanRegions(y, i + 1, IF peak_start = 0 THEN i ELSE peak_start,
                        regions, min_peak_length)
       ELSE ScanRegions(y, i + 1, 0,
                        CloseRegion(regions, peak_start, i, min_peak_length),
                        min_peak_length)

peak_regions(y, min_peak_length) == ScanRegions(y, 1, 0, <<>>, min_peak_length)

\* Python's builtin max over a sequence: the first item, replaced by every
\* later item that compares greater (so a leading NaN stays)
RECURSIVE PyMaxFrom(_, _, _)
PyMaxFrom(y, i, best) ==
  IF i > Len(y) THEN best
  ELSE PyMaxFrom(y, i + 1, IF RGt(y[i], best) THEN y[i] ELSE best)

\* line 217
max_curve_value(y) == IF Len(y) > 0 THEN PyMaxFrom(y, 2, y[1]) ELSE Zero

\* lines 221-223: np.max and np.argmax (first occurrence) of y[s..e]
RECURSIVE ArgMaxFrom(_, _, _, _)
ArgMaxFrom(y, i, e, loc) ==
  IF i > e THEN loc
  ELSE ArgMaxFrom(y, i + 1, e, IF RGt(y[i], y[loc]) THEN i ELSE loc)

loc_height(y, s, e) == ArgMaxFrom(y, s + 1, e, s)

\* lines 231-233: the trapezoidal rule over the pairs (i, i + 1), s <= i < e
RECURSIVE Trapezoid(_, _, _, _)
Trapezoid(x, y, i, e) ==
  IF i >= e THEN Zero
  ELSE RAdd(RDiv(RMul(RSub(x[i + 1], x[i]), RAdd(y[i], y[i + 1])), R(2)),
            Trapezoid(x, y, i + 1, e))

\* mutant of StartOfPeak: without the case of the first sample, index
\* start_idx - 1 = -1 is the last sample
StartOfPeak_NoFirstSampleCase(x, y, s) ==
  LET before == IF s = 1 THEN Len(y) ELSE s - 1
      dx == RSub(x[s], x[before])
      dy == RSub(y[s], y[before])
  IN  IF RGt(RAbs(dy), FLOAT_TOLERANCE)
      THEN LET peak_st == RSub(x[s], RDiv(RMul(dx, y[s]), dy))
           IN  <<peak_st, RDiv(RMul(RSub(x[s], peak_st), y[s]), R(2))>>
      ELSE <<x[s], Zero>>

\* lines 236-247: <<peak_st, partial area>> of a run that starts at s
StartOfPeak(x, y, s) ==
  IF s = 1 THEN <<x[s], Zero>>
  ELSE LET dx == RSub(x[s], x[s - 1])
           dy == RSub(y[s], y[s - 1])
       IN  IF RGt(RAbs(dy), FLOAT_TOLERANCE)
           THEN LET peak_st == RSub(x[s], RDiv(RMul(dx, y[s]), dy))
                IN  <<peak_st, RDiv(RMul(RSub(x[s], peak_st), y[s]), R(2))>>
           ELSE <<x[s], Zero>>

\* mutant of EndOfPeak: the end is interpolated with dy instead of abs(dy)
EndOfPeak_SignedDy(x, y, e) ==
  IF e = Len(y) THEN <<x[e], Zero>>
  ELSE LET dx == RSub(x[e + 1], x[e])
           dy == RSub(y[e + 1], y[e])
       IN  IF RGt(RAbs(dy), FLOAT_TOLERANCE)
           THEN LET peak_ed == RAdd(x[e], RDiv(RMul(dx, y[e]), dy))
                IN  <<peak_ed, RDiv(RMul(RSub(peak_ed, x[e]), y[e]), R(2))>>
           ELSE <<x[e], Zero>>

\* lines 250-261: <<peak_ed, partial area>> of a run that ends at e
EndOfPeak(x, y, e) ==
  IF e = Len(y) THEN <<x[e], Zero>>
  ELSE LET dx == RSub(x[e + 1], x[e])
           dy == RSub(y[e + 1], y[e])
       IN  IF RGt(RAbs(dy), FLOAT_TOLERANCE)
           THEN LET peak_ed == RAdd(x[e], RDiv(RMul(dx, y[e]), RAbs(dy)))
                IN  <<peak_ed, RDiv(RMul(RSub(peak_ed, x[e]), y[e]), R(2))>>
           ELSE <<x[e], Zero>>

\* lines 230-263: the tuple appended to peak_info for the run [s, e]
\* (start_x, end_x, peak_x, peak_y, auc, baseline)
PeakTuple(x, y, y_baseline, s, e) ==
  LET loc == loc_height(y, s, e)
      st == StartOfPeak(x, y, s)
      ed == EndOfPeak(x, y, e)
      auc == RAdd(RAdd(Trapezoid(x, y, s, e), st[2]), ed[2])
  IN  <<st[1], ed[1], x[loc], y[loc], auc, y_baseline>>

\* mutant of TooLow: a run exactly at the threshold is rejected too
TooLow_Inclusive(height, min_height_ratio, max_value) ==
  RLe(height, RMul(min_height_ratio, max_value))

\* line 227: the relative height filter
TooLow(height, min_height_ratio, max_value) ==
  RLt(height, RMul(min_height_ratio, max_value))

\* mutant of AddPeak: the total area is overwritten, not accumulated
AddPeak_AreaOverwritten(acc, peak) ==
  [peak_info |-> Append(acc.peak_info, peak),
   summary |-> [n_peaks |-> acc.summary.n_peaks + 1,
                total_area |-> peak[5],
                baseline |-> acc.summary.baseline,
                max_height |-> IF RGt(peak[4], acc.summary.max_height)
                               THEN peak[4] ELSE acc.summary.max_height]]

\* lines 263-267: what one surviving run adds to peak_info and summary
AddPeak(acc, peak) ==
  [peak_info |-> Append(acc.peak_info, peak),
   summary |-> [n_peaks |-> acc.summary.n_peaks + 1,
                total_area |-> RAdd(acc.summary.total_area, peak[5]),
                baseline |-> acc.summary.baseline,
                max_height |-> IF RGt(peak[4], acc.summary.max_height)
                               THEN peak[4] ELSE acc.summary.max_height]]

\* lines 219-267: the loop over peak_regions, from region k on
RECURSIVE ForRegions(_, _, _, _, _, _, _)
ForRegions(x, y, y_baseline, min_height_ratio, regions, k, acc) ==
  IF k > Len(regions) THEN acc
  ELSE LET s == regions[k][1]
           e == regions[k][2]
           height == y[loc_height(y, s, e)]
       IN  ForRegions(x, y, y_baseline, min_height_ratio, regions, k + 1,
                      IF TooLow(height, min_height_ratio, max_curve_value(y))
                      THEN acc
                      ELSE AddPeak(acc, PeakTuple(x, y, y_baseline, s, e)))

\* lines 194-269: [summary, peak_info]
AUC_from_a_region(x_curve, y_corrected_curve, y_baseline, min_height_ratio, min_peak_length) ==
  ForRegions(x_curve, y_corrected_curve, y_baseline, min_height_ratio,
             peak_regions(y_corrected_curve, min_peak_length), 1,
             [peak_info |-> <<>>,
              summary |-> [n_peaks |-> 0, total_area |-> Zero,
                           baseline |-> y_baseline, max_height |-> Zero]])

\* ------------------------------------------------------------------------
\* traits_for_all
\* ------------------------------------------------------------------------

UpperChars == <<"A", "B", "C", "D", "E", "F", "G", "H", "I", "J", "K", "L", "M", "N", "O", "P", "Q", "R", "S", "T", "U", "V", "W", "X", "Y", "Z">>
LowerChars == <<"a", "b", "c", "d", "e", "f", "g", "h", "i", "j", "k", "l", "m", "n", "o", "p", "q", "r", "s", "t", "u", "v", "w", "x", "y", "z">>

\* str.lower()
PyLower(s) ==
  [i \in 1..Len(s) |->
     IF \E k \in 1..26 : UpperChars[k] = s[i]
     THEN LowerChars[CHOOSE k \in 1..26 : UpperChars[k] = s[i]]
     ELSE s[i]]

\* sub in s
HasSubstring(s, sub) ==
  \E i \in 0..(Len(s) - Len(sub)) : \A k \in 1..Len(sub) : s[i + k] = sub[k]

\* mutant of time_col_name: the names are not lower-cased
time_col_name_CaseSensitive(columns) ==
  {c \in 1..Len(columns) : HasSubstring(columns[c].name, <<"t", "i", "m", "e">>)}

\* lines 339-342: the positions of the columns whose lower-cased name
\* contains "time"
time_col_name(columns) ==
  {c \in 1..Len(columns) : HasSubstring(PyLower(columns[c].name), <<"t", "i", "m", "e">>)}

FirstOf(S) == CHOOSE c \in S : \A d \in S : c <= d

\* line 343
time_x(columns) == columns[FirstOf(time_col_name(columns))].values

\* line 344: the columns whose name is not the time column's name
donors(columns) ==
  SelectSeq(columns, LAMBDA col : col.name # columns[FirstOf(time_col_name(columns))].name)

\* lines 347-350
required_columns == {"PeakName", "PeakRange", "BaselineTime", "MinHeightRatio", "MinPeakLength", "BaselineOrPeak", "NegativePeak", "CalculateSIorII"}

\* mutant of missing_columns: MinPeakLength is not among the required columns
missing_columns_WithoutMinPeakLength(parameter_columns) ==
  (required_columns \ {"MinPeakLength"}) \ parameter_columns

\* line 351
missing_columns(parameter_columns) == required_columns \ parameter_columns

\* mutant of hasnans: only the last sample is looked at
hasnans_LastSampleOnly(column) == Len(column) > 0 /\ ~IsNum(column[Len(column)])

\* Series.hasnans
hasnans(column) == \E i \in 1..Len(column) : ~IsNum(column[i])

\* dict assignment d[key] = value: an existing key keeps its place
DictSet(d, key, value) ==
  IF \E k \in 1..Len(d) : d[k].key = key
  THEN [k \in 1..Len(d) |-> IF d[k].key = key THEN [key |-> key, value |-> value] ELSE d[k]]
  ELSE Append(d, [key |-> key, value |-> value])

\* line 361
IsBaselineRow(row) == PyLower(row.BaselineOrPeak) = <<"b", "a", "s", "e", "l", "i", "n", "e">>

\* lines 365-369: what the donor's column adds to results in a baseline row
BasalEntry(entire_x, column, row) ==
  IF hasnans(column) THEN Return(NA)
  ELSE parse_basal_secretion(entire_x, column, row.BaselineTime)

\* np.max of an array: a ValueError on an empty array, NaN when any item is
\* NaN, the largest item otherwise
NpMax(a) ==
  IF Len(a) = 0 THEN Raise("ValueError")
  ELSE IF \E i \in 1..Len(a) : ~IsNum(a[i]) THEN Return(NaN)
       ELSE Return(PyMaxFrom(a, 2, a[1]))

\* mutant of IndexMaxHeight: the maximum is not clamped at zero
IndexMaxHeight_Unclamped(sub_y) == NpMax(sub_y)

\* line 397
IndexMaxHeight(sub_y) ==
  LET m == NpMax(sub_y)
  IN  IF m.error # "" THEN m
      ELSE Return(IF RGt(m.value, Zero) THEN m.value ELSE Zero)

\* lines 400-401
InhibitionIndex(baseline, max_height) ==
  LET valley_min == RSub(baseline, max_height)
  IN  IF RGt(RMul(valley_min, baseline), Zero) THEN RDiv(baseline, valley_min) ELSE NA

\* lines 404-405
StimulationIndex(baseline, max_height) ==
  LET peak_max == RAdd(baseline, max_height)
  IN  IF RGt(baseline, Zero) THEN RDiv(peak_max, baseline) ELSE NA

\* lines 387-406, for the region the donor's column gave:
\* <<what is appended to results, what is appended to si_or_ii>>
PeakEntryOfRegion(region, row) ==
  LET sub_x == region[1]
      sub_y == region[2]
      out == AUC_from_a_region(sub_x, sub_y, region[3], row.MinHeightRatio, row.MinPeakLength)
      baseline == out.summary.baseline
      max_height == IndexMaxHeight(sub_y)
  IN  IF max_height.error # "" THEN max_height
      ELSE Return(<<out.summary.total_area,
                    IF row.NegativePeak
                    THEN InhibitionIndex(baseline, max_height.value)
                    ELSE StimulationIndex(baseline, max_height.value)>>)

\* lines 377-406 (the region is bound to its value before it is used)
PeakEntry(entire_x, column, row) ==
  IF hasnans(column) THEN Return(<<NA, NA>>)
  ELSE CHOOSE entry \in
         {IF region.error # "" THEN region ELSE PeakEntryOfRegion(region.value, row) :
            region \in {parse_peak_and_baseline_region(entire_x, column, row.PeakRange,
                                                       row.BaselineTime, row.NegativePeak)}} : TRUE

\* lines 370, 409, 414-418
BasalTraitName(trait_prefix, row) == trait_prefix \o " " \o row.PeakName
AUCTraitName(trait_prefix, row) == trait_prefix \o " " \o row.PeakName \o " AUC"
IndexTraitName(trait_prefix, row) ==
  trait_prefix \o " " \o row.PeakName \o " " \o (IF row.NegativePeak THEN "II" ELSE "SI")

Raised(what) ==
  /\ pc' = "raised"
  /\ raised' = what

\* lines 337-344
FindTimeColumn ==
  /\ pc = "start"
  /\ IF time_col_name(input_df) = {}
     THEN Raised("KeyError")
     ELSE pc' = "validate" /\ UNCHANGED raised
  /\ UNCHANGED <<args, ret, traits_vars>>

\* lines 346-357
ValidateParameters ==
  /\ pc = "validate"
  /\ IF missing_columns(parameter_df.columns) # {}
     THEN Raised("AssertionError") /\ UNCHANGED <<row_i, all_results>>
     ELSE /\ pc' = "rows"
          /\ row_i' = 1
          /\ all_results' = <<[key |-> "Donor ID",
                               value |-> [j \in 1..Len(donors(input_df)) |-> donors(input_df)[j].name]]>>
          /\ UNCHANGED raised
  /\ UNCHANGED <<args, ret, input_df, parameter_df, donor_j, results, si_or_ii>>

\* lines 360-363 and 372-375: the next row of parameter_df
NextRow ==
  /\ pc = "rows"
  /\ row_i <= Len(parameter_df.rows)
  /\ pc' = IF IsBaselineRow(parameter_df.rows[row_i]) THEN "baseline" ELSE "peak"
  /\ donor_j' = 1
  /\ results' = <<>>
  /\ si_or_ii' = <<>>
  /\ UNCHANGED <<args, ret, raised, input_df, parameter_df, row_i, all_results>>

\* lines 364-369: one donor of a baseline row
BasalDonor ==
  /\ pc = "baseline"
  /\ donor_j <= Len(donors(input_df))
  /\ LET entry == BasalEntry(time_x(input_df), donors(input_df)[donor_j].values,
                             parameter_df.rows[row_i])
     IN  IF entry.error # ""
         THEN Raised(entry.error) /\ UNCHANGED <<donor_j, results>>
         ELSE /\ results' = Append(results, entry.value)
              /\ donor_j' = donor_j + 1
              /\ UNCHANGED <<pc, raised>>
  /\ UNCHANGED <<args, ret, input_df, parameter_df, row_i, si_or_ii, all_results>>

\* lines 370-371: the column of a baseline row is stored
EndBasalRow ==
  /\ pc = "baseline"
  /\ donor_j > Len(donors(input_df))
  /\ all_results' = DictSet(all_results,
                            BasalTraitName(args.trait_prefix, parameter_df.rows[row_i]), results)
  /\ row_i' = row_i + 1
  /\ pc' = "rows"
  /\ UNCHANGED <<args, ret, raised, input_df, parameter_df, donor_j, results, si_or_ii>>

\* lines 376-406: one donor of a peak row
PeakDonor ==
  /\ pc = "peak"
  /\ donor_j <= Len(donors(input_df))
  /\ LET entry == PeakEntry(time_x(input_df), donors(input_df)[donor_j].values,
                            parameter_df.rows[row_i])
     IN  IF entry.error # ""
         THEN Raised(entry.error) /\ UNCHANGED <<donor_j, results, si_or_ii>>
         ELSE /\ results' = Append(results, entry.value[1])
              /\ si_or_ii' = Append(si_or_ii, entry.value[2])
              /\ donor_j' = donor_j + 1
              /\ UNCHANGED <<pc, raised>>
  /\ UNCHANGED <<args, ret, input_df, parameter_df, row_i, all_results>>

\* lines 408-419: the columns of a peak row are stored
EndPeakRow ==
  /\ pc = "peak"
  /\ donor_j > Len(donors(input_df))
  /\ LET row == parameter_df.rows[row_i]
         with_auc == DictSet(all_results, AUCTraitName(args.trait_prefix, row), results)
     IN  all_results' = IF row.CalculateSIorII
                        THEN DictSet(with_auc, IndexTraitName(args.trait_prefix, row), si_or_ii)
                        ELSE with_auc
  /\ row_i' = row_i + 1
  /\ pc' = "rows"
  /\ UNCHANGED <<args, ret, raised, input_df, parameter_df, donor_j, results, si_or_ii>>

\* line 421
ReturnTable ==
  /\ pc = "rows"
  /\ row_i > Len(parameter_df.rows)
  /\ ret' = all_results
  /\ pc' = "returned"
  /\ UNCHANGED <<args, raised, traits_vars>>

Next ==
  \/ FindTimeColumn
  \/ ValidateParameters
  \/ NextRow
  \/ BasalDonor
  \/ EndBasalRow
  \/ PeakDonor
  \/ EndPeakRow
  \/ ReturnTable

\* ------------------------------------------------------------------------
\* traits_for_all applied to bounded tables
\* ------------------------------------------------------------------------

NTimes == 3
MaxDonors == 2
MaxRows == 2

RECURSIVE AxisFrom(_, _, _, _)
AxisFrom(n, i, t, pattern) ==
  IF i > n THEN <<>>
  ELSE <<R(t)>> \o AxisFrom(n, i + 1,
                            t + (IF pattern = 0 THEN 1 ELSE 1 + ((i + pattern) % 2)),
                            pattern)

\* ascending time axes of n points: unit spacing (pattern 0), and the uneven
\* spacing 1, 2, 4, 5, 7, ... (pattern 1)
TimeAxis(n, pattern) == AxisFrom(n, 1, 1, pattern)

\* str() of a natural number
RECURSIVE NumberText(_)
NumberText(n) ==
  IF n < 10 THEN <<DigitChars[n + 1]>>
  ELSE NumberText(n \div 10) \o <<DigitChars[(n % 10) + 1]>>

\* a range specification is written from pieces <<p>> (one time point) and
\* <<a, b>> (an interval)
PieceText(piece) ==
  IF Len(piece) = 1 THEN NumberText(piece[1])
  ELSE NumberText(piece[1]) \o <<"-">> \o NumberText(piece[2])

\* the pieces joined with "|"
RECURSIVE RangeText(_)
RangeText(structure) ==
  IF Len(structure) = 1 THEN PieceText(structure[1])
  ELSE PieceText(structure[1]) \o <<"|">> \o RangeText(Tail(structure))

SampleValues == {Zero, R(1), R(3)}

\* the columns of the first donor: every complete column, and a column of
\* ones with one sample missing
FirstColumns ==
  [1..NTimes -> SampleValues] \cup
  {[i \in 1..NTimes |-> IF i = k THEN NaN ELSE R(1)] : k \in 1..NTimes}

\* the columns of the further donors: 1, 3, 1, ... and 1, NaN, 1, ...
FurtherColumns ==
  {[i \in 1..NTimes |-> IF i = 2 THEN R(3) ELSE R(1)],
   [i \in 1..NTimes |-> IF i = 2 THEN NaN ELSE R(1)]}

DonorColumns ==
  {<<>>} \cup
  UNION {{[j \in 1..n |-> IF j = 1 THEN first ELSE further[j - 1]] :
            first \in FirstColumns, further \in [1..(n - 1) -> FurtherColumns]} :
         n \in 1..MaxDonors}

\* the table with the first column named axis_name and the donors D1, D2, ...
Table(axis_name, columns) ==
  <<[name |-> axis_name, values |-> TimeAxis(NTimes, 0)]>> \o
  [j \in 1..Len(columns) |-> [name |-> <<"D", DigitChars[j + 1]>>, values |-> columns[j]]]

InputTables == {Table(<<"T", "i", "m", "e">>, columns) : columns \in DonorColumns}

\* the tables whose donors all have one of the two further columns
SmallTables ==
  {Table(<<"t", "i", "m", "e">>, columns) :
     columns \in UNION {[1..n -> FurtherColumns] : n \in 0..MaxDonors}}

\* a table without a time column
NoTimeTable == Table(<<"m", "i", "n">>, <<[i \in 1..NTimes |-> R(i)]>>)

\* a table with a donor before its time column "RunTIME" and a donor named
\* "time" after it
TwoTimeTable ==
  <<[name |-> <<"D", "1">>, values |-> [i \in 1..NTimes |-> R(i)]],
    [name |-> <<"R", "u", "n", "T", "I", "M", "E">>, values |-> TimeAxis(NTimes, 0)],
    [name |-> <<"t", "i", "m", "e">>, values |-> [i \in 1..NTimes |-> R(IF i = 2 THEN 3 ELSE 1)]]>>

\* "1", "1-2" and, off the axis, "7"
BaselineTimes == {RangeText(<<<<1>>>>), RangeText(<<<<1, 2>>>>), RangeText(<<<<7>>>>)}

\* "2-3" and, off the axis, "5-6"
PeakRanges == {RangeText(<<<<2, 3>>>>), RangeText(<<<<5, 6>>>>)}

BaselineRows ==
  [PeakName : {"A"}, PeakRange : {RangeText(<<<<1, 3>>>>)}, BaselineTime : BaselineTimes,
   MinHeightRatio : {Zero}, MinPeakLength : {0},
   BaselineOrPeak : {<<"B", "a", "s", "e", "l", "i", "n", "e">>},
   NegativePeak : {FALSE}, CalculateSIorII : {FALSE}]

PeakRows ==
  [PeakName : {"A"}, PeakRange : PeakRanges, BaselineTime : BaselineTimes,
   MinHeightRatio : {Q(1, 10)}, MinPeakLength : {1, 2},
   BaselineOrPeak : {<<"P", "e", "a", "k">>},
   NegativePeak : BOOLEAN, CalculateSIorII : BOOLEAN]

\* the rows after the first: a baseline row "B" and a peak row "A"
FurtherRows ==
  {[PeakName |-> "B", PeakRange |-> RangeText(<<<<1, 3>>>>), BaselineTime |-> RangeText(<<<<1, 2>>>>),
    MinHeightRatio |-> Zero, MinPeakLength |-> 0,
    BaselineOrPeak |-> <<"b", "a", "s", "e", "l", "i", "n", "e">>,
    NegativePeak |-> FALSE, CalculateSIorII |-> FALSE],
   [PeakName |-> "A", PeakRange |-> RangeText(<<<<2, 3>>>>), BaselineTime |-> RangeText(<<<<1>>>>),
    MinHeightRatio |-> Q(1, 10), MinPeakLength |-> 1,
    BaselineOrPeak |-> <<"P", "E", "A", "K">>,
    NegativePeak |-> TRUE, CalculateSIorII |-> TRUE]}

RowSequences ==
  {<<>>} \cup
  UNION {{[k \in 1..n |-> IF k = 1 THEN first ELSE further[k - 1]] :
            first \in BaselineRows \cup PeakRows, further \in [1..(n - 1) -> FurtherRows]} :
         n \in 1..MaxRows}

ParameterTables == [columns : {required_columns}, rows : RowSequences]

OneRowTables == {t \in ParameterTables : Len(t.rows) <= 1}

\* parameter tables that lack one required column, or two
IncompleteParameterTables ==
  [columns : {required_columns \ {c} : c \in required_columns} \cup
             {required_columns \ {"PeakRange", "MinPeakLength"}},
   rows : {<<row>> : row \in FurtherRows}]

Init ==
  /\ pc = "start"
  /\ args = [trait_prefix |-> "GCG-IEQ"]
  /\ ret = <<>>
  /\ raised = ""
  /\ \/ /\ input_df \in InputTables
        /\ parameter_df \in OneRowTables
     \/ /\ input_df \in SmallTables
        /\ parameter_df \in ParameterTables \cup IncompleteParameterTables
     \/ /\ input_df \in {NoTimeTable, TwoTimeTable}
        /\ parameter_df \in IncompleteParameterTables \cup
                            [columns : {required_columns}, rows : {<<row>> : row \in FurtherRows}]
  /\ row_i = 0
  /\ donor_j = 0
  /\ results = <<>>
  /\ si_or_ii = <<>>
  /\ all_results = <<>>

Spec == Init /\ [][Next]_vars

\* ------------------------------------------------------------------------
\* traits_for_all as one function of its tables (lines 336-421), for the
\* statements that compare the results of two tables
\* ------------------------------------------------------------------------

\* lines 364-369 and 376-406: the entries of the donors from donor j on
RECURSIVE RowEntries(_, _, _, _, _)
RowEntries(entire_x, donor_columns, row, j, entries) ==
  IF j > Len(donor_columns) THEN Return(entries)
  ELSE \* the entry is bound to its value before it is used
       CHOOSE out \in
         {IF entry.error # "" THEN entry
          ELSE RowEntries(entire_x, donor_columns, row, j + 1, Append(entries, entry.value)) :
            entry \in {IF IsBaselineRow(row)
                       THEN BasalEntry(entire_x, donor_columns[j].values, row)
                       ELSE PeakEntry(entire_x, donor_columns[j].values, row)}} : TRUE

\* lines 370-371 and 408-419: the columns a row stores
StoreRow(table, trait_prefix, row, entries) ==
  IF IsBaselineRow(row) THEN DictSet(table, BasalTraitName(trait_prefix, row), entries)
  ELSE LET with_auc == DictSet(table, AUCTraitName(trait_prefix, row),
                               [j \in 1..Len(entries) |-> entries[j][1]])
       IN  IF row.CalculateSIorII
           THEN DictSet(with_auc, IndexTraitName(trait_prefix, row),
                        [j \in 1..Len(entries) |-> entries[j][2]])
           ELSE with_auc

\* lines 360-421: the rows from row k on
RECURSIVE AllRows(_, _, _, _, _, _)
AllRows(entire_x, donor_columns, rows, trait_prefix, k, table) ==
  IF k > Len(rows) THEN Return(table)
  ELSE CHOOSE out \in
         {IF entries.error # "" THEN entries
          ELSE AllRows(entire_x, donor_columns, rows, trait_prefix, k + 1,
                       StoreRow(table, trait_prefix, rows[k], entries.value)) :
            entries \in {RowEntries(entire_x, donor_columns, rows[k], 1, <<>>)}} : TRUE

\* lines 336-421
traits_for_all(table, parameters, trait_prefix) ==
  IF time_col_name(table) = {} THEN Raise("KeyError")
  ELSE IF missing_columns(parameters.columns) # {} THEN Raise("AssertionError")
       ELSE AllRows(time_x(table), donors(table), parameters.rows, trait_prefix, 1,
                    <<[key |-> "Donor ID",
                       value |-> [j \in 1..Len(donors(table)) |-> donors(table)[j].name]]>>)

\* ------------------------------------------------------------------------
\* AUC_from_a_region applied to bounded inputs
\* ------------------------------------------------------------------------

MaxLen == 4
MaxMinPeakLength == 2

\* corrected values on both sides of the tolerance: below zero, zero, the
\* tolerance itself (positive, not above it), and two heights above it
CurveValues == {Q(-2, 100000), Zero, Q(1, 100000), Q(2, 100000), Q(4, 100000)}
Ratios == {Zero, Q(1, 2), R(1)}

AxisPatterns == {0, 1}

\* the example of the docstring, lines 186-192
DocExample ==
  [x_curve |-> TimeAxis(7, 0),
   y_corrected_curve |-> <<Zero, Zero, R(1), R(2), R(1), Zero, Zero>>,
   y_baseline |-> Zero,
   min_height_ratio |-> Q(1, 10),
   min_peak_length |-> 3]

\* every curve of up to MaxLen samples with every axis, ratio and minimum
\* length, with a baseline of 2; every curve once more with an undefined
\* baseline, and once more on the axis with a wide interval; and the
\* docstring's example
\* the axis 1, 2, 6, 7, 8, ...: one interval four times as wide as the others
WideAxis(n) == [i \in 1..n |-> R(IF i <= 2 THEN i ELSE i + 3)]

AUCInputs ==
  {DocExample} \cup
  UNION {[x_curve : {WideAxis(n)},
          y_corrected_curve : [1..n -> CurveValues],
          y_baseline : {R(2)},
          min_height_ratio : {Zero},
          min_peak_length : {1}] : n \in 0..MaxLen} \cup
  UNION {[x_curve : {TimeAxis(n, p) : p \in AxisPatterns},
          y_corrected_curve : [1..n -> CurveValues],
          y_baseline : {R(2)},
          min_height_ratio : Ratios,
          min_peak_length : 0..MaxMinPeakLength] : n \in 0..MaxLen} \cup
  UNION {[x_curve : {TimeAxis(n, 0)},
          y_corrected_curve : [1..n -> CurveValues],
          y_baseline : {NaN},
          min_height_ratio : {Q(1, 10)},
          min_peak_length : {1}] : n \in 0..MaxLen}

NoTraits ==
  /\ input_df = <<>>
  /\ parameter_df = <<>>
  /\ row_i = 0
  /\ donor_j = 0
  /\ results = <<>>
  /\ si_or_ii = <<>>
  /\ all_results = <<>>

InitAUC ==
  /\ pc = "AUC_call"
  /\ args \in AUCInputs
  /\ ret = <<>>
  /\ raised = ""
  /\ NoTraits

CallAUC ==
  /\ pc = "AUC_call"
  /\ ret' = AUC_from_a_region(args.x_curve, args.y_corrected_curve, args.y_baseline,
                              args.min_height_ratio, args.min_peak_length)
  /\ pc' = "AUC_return"
  /\ UNCHANGED <<args, raised, traits_vars>>

NextAUC == CallAUC

SpecAUC == InitAUC /\ [][NextAUC]_vars

\* ------------------------------------------------------------------------
\* parse_basal_secretion and parse_peak_and_baseline_region applied to
\* bounded inputs
\* ------------------------------------------------------------------------

MaxAxisLen == 4
MaxPieces == 2

\* a range specification before it is written as text: pieces <<p>> (one time
\* point) and <<a, b>> (an interval)
Pieces == {<<2>>, <<3>>, <<10>>, <<2, 3>>, <<2, 10>>, <<3, 10>>, <<3, 3>>, <<10, 2>>}

RangeStructures == UNION {[1..n -> Pieces] : n \in 1..MaxPieces}



\* texts that are no range specification: "", "3|", "2-3-10", "2-"
MalformedTexts == {<<>>, <<"3", "|">>, <<"2", "-", "3", "-", "1", "0">>, <<"2", "-">>}

\* the axes 1, 2, 3, ... and 1, 2, 4, 5, ... and 3, 6, 9, 12, ...
TripleAxis(n) == [i \in 1..n |-> R(3 * i)]
ParseAxes == UNION {{TimeAxis(n, 0), TimeAxis(n, 1), TripleAxis(n)} : n \in 0..MaxAxisLen}

\* two value columns: 5, 1, 9, 3, 13, ... and 2, 8, 18, ...
ValueColumns(n) ==
  {[i \in 1..n |-> R(IF i % 2 = 1 THEN 2 * i + 3 ELSE 2 * i - 3)], [i \in 1..n |-> R(2 * i * i)]}

PeakRangeTexts == {RangeText(<<piece>>) : piece \in {<<2, 3>>, <<3, 10>>, <<10, 12>>}}

BasalInputs ==
  UNION {[entire_x : {x}, entire_y : ValueColumns(Len(x)),
          structure : RangeStructures] : x \in ParseAxes}

RegionInputs ==
  UNION {[entire_x : {x}, entire_y : ValueColumns(Len(x)),
          structure : RangeStructures,
          peak_range : PeakRangeTexts, negative_peak : BOOLEAN] : x \in ParseAxes}

\* args.text is the range text handed to the function; args.structure is
\* what it was written from (<<>> for a malformed text)
InitParse ==
  /\ \/ /\ pc = "basal_call"
        /\ \/ \E a \in BasalInputs :
                args = [entire_x |-> a.entire_x, entire_y |-> a.entire_y,
                        structure |-> a.structure, text |-> RangeText(a.structure)]
           \/ \E t \in MalformedTexts :
                args = [entire_x |-> TimeAxis(3, 0), entire_y |-> <<R(5), R(1), R(9)>>,
                        structure |-> <<>>, text |-> t]
     \/ /\ pc = "region_call"
        /\ \E a \in RegionInputs :
             args = [entire_x |-> a.entire_x, entire_y |-> a.entire_y,
                     structure |-> a.structure, text |-> RangeText(a.structure),
                     peak_range |-> a.peak_range, negative_peak |-> a.negative_peak]
  /\ ret = <<>>
  /\ raised = ""
  /\ NoTraits

CallBasal ==
  /\ pc = "basal_call"
  /\ LET out == parse_basal_secretion(args.entire_x, args.entire_y, args.text)
     IN  /\ ret' = out.value
         /\ raised' = out.error
  /\ pc' = "basal_return"
  /\ UNCHANGED <<args, traits_vars>>

CallRegion ==
  /\ pc = "region_call"
  /\ LET out == parse_peak_and_baseline_region(args.entire_x, args.entire_y, args.peak_range,
                                               args.text, args.negative_peak)
     IN  /\ ret' = out.value
         /\ raised' = out.error
  /\ pc' = "region_return"
  /\ UNCHANGED <<args, traits_vars>>

NextParse == CallBasal \/ CallRegion

SpecParse == InitParse /\ [][NextParse]_vars

\* the time points a piece denotes on an axis
PiecePoints(entire_x, piece) ==
  IF Len(piece) = 1
  THEN {entire_x[i] : i \in {j \in 1..Len(entire_x) : entire_x[j] = R(piece[1])}}
  ELSE {entire_x[i] : i \in {j \in 1..Len(entire_x) :
                               RLe(R(piece[1]), entire_x[j]) /\ RLe(entire_x[j], R(piece[2]))}}

StructurePoints(entire_x, structure) ==
  UNION {PiecePoints(entire_x, structure[k]) : k \in 1..Len(structure)}

SeqRange(q) == {q[k] : k \in 1..Len(q)}

ParseReturned == pc \in {"basal_return", "region_return"}

\* C10: for a well-formed range text, both functions resolve it to exactly
\* the axis points of its pieces: {t : a <= t <= b} for "a-b", {p} or {} for
\* "p", the union for "|"-joined pieces; a piece without axis point adds
\* nothing and nothing is raised.
C10_RangeResolution ==
  (ParseReturned /\ args.structure # <<>>) =>
    LET expected == StructurePoints(args.entire_x, args.structure)
        got == IF pc = "basal_return"
               THEN basal_time_points(args.entire_x, args.text)
               ELSE baseline_time_points(args.entire_x, args.text)
    IN  /\ raised = ""
        /\ got.error = ""
        /\ SeqRange(got.value) = expected
        /\ IsIn(args.entire_x, got.value) = {i \in 1..Len(args.entire_x) : args.entire_x[i] \in expected}
        /\ (pc = "basal_return" =>
              ret = SeriesMean(args.entire_y, {i \in 1..Len(args.entire_x) : args.entire_x[i] \in expected}))
        /\ (pc = "region_return" =>
              ret[3] = SeriesMean(args.entire_y, {i \in 1..Len(args.entire_x) : args.entire_x[i] \in expected}))

\* an interval with a two-digit bound joined with a point that is not on the
\* axis: the interval's points alone are resolved
C10_Witness ==
  /\ ParseReturned
  /\ Len(args.structure) = 2
  /\ \E k \in 1..2 :
       /\ Len(args.structure[k]) = 2
       /\ args.structure[k][2] = 10
       /\ Cardinality(PiecePoints(args.entire_x, args.structure[k])) >= 2
       /\ Cardinality(PiecePoints(args.entire_x, args.structure[k])) < Len(args.entire_x)
  /\ \E k \in 1..2 :
       /\ Len(args.structure[k]) = 1
       /\ PiecePoints(args.entire_x, args.structure[k]) = {}
  /\ raised = ""
  /\ IsNum(IF pc = "basal_return" THEN ret ELSE ret[3])

\* ------------------------------------------------------------------------
\* What the peak integrator is expected to return, stated without its loops
\* ------------------------------------------------------------------------

AboveTolerance(v) == RGt(v, FLOAT_TOLERANCE)

\* the maximal runs <<s, e>> of consecutive samples above the tolerance
MaximalRuns(y) ==
  {r \in (1..Len(y)) \X (1..Len(y)) :
     /\ r[1] <= r[2]
     /\ \A i \in r[1]..r[2] : AboveTolerance(y[i])
     /\ (r[1] = 1 \/ ~AboveTolerance(y[r[1] - 1]))
     /\ (r[2] = Len(y) \/ ~AboveTolerance(y[r[2] + 1]))}

RunLength(r) == r[2] - r[1] + 1

\* a set of disjoint runs as a sequence, by ascending start
RECURSIVE RunsInOrder(_)
RunsInOrder(S) ==
  IF S = {} THEN <<>>
  ELSE LET first == CHOOSE r \in S : \A q \in S : r[1] <= q[1]
       IN  <<first>> \o RunsInOrder(S \ {first})

QualifyingRuns(y, min_peak_length) ==
  RunsInOrder({r \in MaximalRuns(y) : RunLength(r) >= min_peak_length})

\* the largest value of a set of numbers
MaxOf(S) == CHOOSE v \in S : \A w \in S : RLe(w, v)

GlobalMax(y) == IF Len(y) = 0 THEN Zero ELSE MaxOf({y[i] : i \in 1..Len(y)})

RunHeight(y, r) == MaxOf({y[i] : i \in r[1]..r[2]})

\* the first sample of the run that has the run's height
RunPeakIndex(y, r) ==
  CHOOSE i \in r[1]..r[2] :
    /\ y[i] = RunHeight(y, r)
    /\ \A j \in r[1]..(i - 1) : y[j] # RunHeight(y, r)

SurvivingRuns(y, min_height_ratio, min_peak_length) ==
  SelectSeq(QualifyingRuns(y, min_peak_length),
            LAMBDA r : ~RLt(RunHeight(y, r), RMul(min_height_ratio, GlobalMax(y))))

\* where the line through (t0, v0) and (t1, v1) crosses zero
ZeroCrossing(t0, v0, t1, v1) ==
  RAdd(t0, RDiv(RMul(RSub(t1, t0), RNeg(v0)), RSub(v1, v0)))

RECURSIVE SumOver(_, _, _)
SumOver(f, lo, hi) == IF lo > hi THEN Zero ELSE RAdd(SumOver(f, lo, hi - 1), f[hi])

TrapezoidSum(x, y, r) ==
  SumOver([i \in r[1]..(r[2] - 1) |->
             RDiv(RMul(RSub(x[i + 1], x[i]), RAdd(y[i], y[i + 1])), R(2))],
          r[1], r[2] - 1)

InterpolatesLeft(y, r) ==
  r[1] > 1 /\ RGt(RAbs(RSub(y[r[1]], y[r[1] - 1])), FLOAT_TOLERANCE)

InterpolatesRight(y, r) ==
  r[2] < Len(y) /\ RGt(RAbs(RSub(y[r[2] + 1], y[r[2]])), FLOAT_TOLERANCE)

LeftBoundary(x, y, r) ==
  IF InterpolatesLeft(y, r)
  THEN ZeroCrossing(x[r[1] - 1], y[r[1] - 1], x[r[1]], y[r[1]])
  ELSE x[r[1]]

RightBoundary(x, y, r) ==
  IF InterpolatesRight(y, r)
  THEN ZeroCrossing(x[r[2]], y[r[2]], x[r[2] + 1], y[r[2] + 1])
  ELSE x[r[2]]

ExpectedAUC(x, y, r) ==
  RAdd(RAdd(TrapezoidSum(x, y, r),
            RDiv(RMul(RSub(x[r[1]], LeftBoundary(x, y, r)), y[r[1]]), R(2))),
       RDiv(RMul(RSub(RightBoundary(x, y, r), x[r[2]]), y[r[2]]), R(2)))

AUCReturned == pc = "AUC_return"

ArgSurvivors ==
  SurvivingRuns(args.y_corrected_curve, args.min_height_ratio, args.min_peak_length)

\* C6: every surviving run's auc is the trapezoidal sum over the pairs inside
\* the run, plus the left and the right triangle up to the interpolated zero
\* crossings (none at the first / last sample or when |dy| <= tolerance), and
\* its start and end are those boundaries; the docstring's example gives one
\* peak of total area 4.
C6_AucIsTrapezoidPlusTriangles ==
  AUCReturned =>
    LET x == args.x_curve
        y == args.y_corrected_curve
        runs == ArgSurvivors
    IN  /\ Len(ret.peak_info) = Len(runs)
        /\ \A k \in 1..Len(runs) :
             /\ ret.peak_info[k][5] = ExpectedAUC(x, y, runs[k])
             /\ ret.peak_info[k][1] = LeftBoundary(x, y, runs[k])
             /\ ret.peak_info[k][2] = RightBoundary(x, y, runs[k])
        /\ (args = DocExample =>
              /\ ret.summary.n_peaks = 1
              /\ ret.summary.total_area = R(4))

\* a run of two samples inside an unevenly spaced curve, interpolated on both
\* sides
C6_Witness ==
  /\ AUCReturned
  /\ \E k \in 1..Len(ArgSurvivors) :
       LET r == ArgSurvivors[k]
       IN  /\ RunLength(r) >= 2
           /\ InterpolatesLeft(args.y_corrected_curve, r)
           /\ InterpolatesRight(args.y_corrected_curve, r)
           /\ RSub(args.x_curve[r[1] + 1], args.x_curve[r[1]]) #
                RSub(args.x_curve[r[1]], args.x_curve[r[1] - 1])
           /\ Len(ret.peak_info) >= k
           /\ RGt(ret.peak_info[k][5], TrapezoidSum(args.x_curve, args.y_corrected_curve, r))

ArgQualifying == QualifyingRuns(args.y_corrected_curve, args.min_peak_length)

ShortRuns(y, min_peak_length) ==
  {r \in MaximalRuns(y) : RunLength(r) < min_peak_length}

TimesOfRun(x, r) == {x[i] : i \in r[1]..r[2]}

\* C7: the candidate regions are exactly the maximal runs above the tolerance
\* of length >= min_peak_length, the run reaching the last sample included;
\* a shorter run gives no peak and no area, and no peak spans two runs.
C7_RegionsAreLongMaximalRuns ==
  AUCReturned =>
    LET x == args.x_curve
        y == args.y_corrected_curve
        runs == ArgQualifying
        short == ShortRuns(y, args.min_peak_length)
    IN  /\ peak_regions(y, args.min_peak_length) = runs
        /\ ret.summary.n_peaks <= Len(runs)
        /\ (args.min_height_ratio = Zero =>
              /\ ret.summary.n_peaks = Len(runs)
              /\ ret.summary.total_area =
                   SumOver([k \in 1..Len(runs) |-> ExpectedAUC(x, y, runs[k])], 1, Len(runs)))
        /\ \A k \in 1..Len(ret.peak_info) :
             /\ \E q \in 1..Len(runs) :
                  /\ ret.peak_info[k][3] \in TimesOfRun(x, runs[q])
                  /\ ret.peak_info[k][5] = ExpectedAUC(x, y, runs[q])
             /\ \A r \in short : ret.peak_info[k][3] \notin TimesOfRun(x, r)

\* a short run is dropped next to a run that reaches the last sample and is kept
C7_Witness ==
  /\ AUCReturned
  /\ ShortRuns(args.y_corrected_curve, args.min_peak_length) # {}
  /\ Len(ArgQualifying) >= 1
  /\ ArgQualifying[Len(ArgQualifying)][2] = Len(args.y_corrected_curve)
  /\ ret.summary.n_peaks = Len(ArgQualifying)

PeaksAtRatio(ratio) ==
  AUC_from_a_region(args.x_curve, args.y_corrected_curve, args.y_baseline,
                    ratio, args.min_peak_length).peak_info

KeptAt(ratio, peak, global_max) == ~RLt(peak[4], RMul(ratio, global_max))

\* C8: a length-qualifying run is rejected exactly when its height is below
\* min_height_ratio times the maximum of the whole corrected sequence; with a
\* larger ratio the peaks are the same peaks, less those now below the
\* threshold.
C8_HeightFilterAgainstGlobalMax ==
  AUCReturned =>
    LET x == args.x_curve
        y == args.y_corrected_curve
        runs == ArgSurvivors
        global_max == GlobalMax(y)
    IN  /\ Len(ret.peak_info) = Len(runs)
        /\ \A k \in 1..Len(runs) :
             /\ ret.peak_info[k][3] = x[RunPeakIndex(y, runs[k])]
             /\ ret.peak_info[k][4] = RunHeight(y, runs[k])
        /\ \A ratio \in Ratios :
             RGt(ratio, args.min_height_ratio) =>
               PeaksAtRatio(ratio) =
                 SelectSeq(ret.peak_info, LAMBDA p : KeptAt(ratio, p, global_max))

\* the maximum of the curve lies in a run dropped for its length; of two
\* length-qualifying runs one is exactly at the threshold and kept, and a
\* larger ratio removes the lower one only
C8_Witness ==
  /\ AUCReturned
  /\ Len(ArgQualifying) >= 2
  /\ Len(ret.peak_info) = Len(ArgQualifying)
  /\ \E k \in 1..Len(ret.peak_info) :
       ret.peak_info[k][4] = RMul(args.min_height_ratio, GlobalMax(args.y_corrected_curve))
  /\ \E ratio \in Ratios :
       /\ RGt(ratio, args.min_height_ratio)
       /\ Len(PeaksAtRatio(ratio)) = Len(ret.peak_info) - 1

RECURSIVE SumOfAuc(_, _)
SumOfAuc(peaks, k) == IF k = 0 THEN Zero ELSE RAdd(SumOfAuc(peaks, k - 1), peaks[k][5])

\* C9: the summary agrees with the peaks: their number, the sum of their auc,
\* their largest height (0 without peaks) and the baseline argument; an empty
\* or flat curve gives 0, 0, 0 and no peaks.
C9_SummaryAgreesWithPeaks ==
  AUCReturned =>
    /\ ret.summary.n_peaks = Len(ret.peak_info)
    /\ ret.summary.total_area = SumOfAuc(ret.peak_info, Len(ret.peak_info))
    /\ ret.summary.max_height =
         (IF ret.peak_info = <<>> THEN Zero
          ELSE MaxOf({ret.peak_info[k][4] : k \in 1..Len(ret.peak_info)}))
    /\ ret.summary.baseline = args.y_baseline
    /\ \A k \in 1..Len(ret.peak_info) : ret.peak_info[k][6] = args.y_baseline
    /\ ((\A i \in 1..Len(args.y_corrected_curve) : ~AboveTolerance(args.y_corrected_curve[i])) =>
          /\ ret.peak_info = <<>>
          /\ ret.summary.n_peaks = 0
          /\ ret.summary.total_area = Zero
          /\ ret.summary.max_height = Zero)

\* two peaks of different heights, the lower one last
C9_Witness ==
  /\ AUCReturned
  /\ Len(ret.peak_info) = 2
  /\ RGt(ret.peak_info[1][4], ret.peak_info[2][4])
  /\ ret.summary.n_peaks = 2
  /\ ret.summary.max_height = ret.peak_info[1][4]

\* an empty curve and a flat curve, for the second half of C9
C9_FlatReturned ==
  /\ AUCReturned
  /\ Len(args.y_corrected_curve) > 0
  /\ \A i \in 1..Len(args.y_corrected_curve) : args.y_corrected_curve[i] = FLOAT_TOLERANCE

\* ------------------------------------------------------------------------
\* Statements about traits_for_all
\* ------------------------------------------------------------------------

TableReturned == pc = "returned"

TheDonors == donors(input_df)
TheRows == parameter_df.rows

Complete(column) == \A i \in 1..Len(column) : IsNum(column[i])

IsPeakRow(row) == PyLower(row.BaselineOrPeak) # <<"b", "a", "s", "e", "l", "i", "n", "e">>

\* the keys a row stores its columns under
KeysOf(row) ==
  IF ~IsPeakRow(row) THEN {BasalTraitName(args.trait_prefix, row)}
  ELSE {AUCTraitName(args.trait_prefix, row)} \cup
       (IF row.CalculateSIorII THEN {IndexTraitName(args.trait_prefix, row)} ELSE {})

\* no later row stores a column under the key
LastUnder(k, key) == \A later \in (k + 1)..Len(TheRows) : key \notin KeysOf(TheRows[later])

\* the column of the returned table under the key
Stored(key) == ret[CHOOSE c \in 1..Len(ret) : ret[c].key = key].value

Missing(v) == ~IsNum(v)

\* the largest corrected value of the window, not below zero (0 for an
\* undefined curve)
ClampedCurveMax(sub_y) ==
  IF \A i \in 1..Len(sub_y) : IsNum(sub_y[i])
  THEN (IF RGt(GlobalMax(sub_y), Zero) THEN GlobalMax(sub_y) ELSE Zero)
  ELSE Zero

ExpectedSI(baseline, max_height) ==
  IF RGt(baseline, Zero) THEN RDiv(RAdd(baseline, max_height), baseline) ELSE NA

ExpectedII(baseline, max_height) ==
  IF RGt(RMul(RSub(baseline, max_height), baseline), Zero)
  THEN RDiv(baseline, RSub(baseline, max_height))
  ELSE NA

\* the region of donor j in row k: <<sub_x, sub_y, baseline>>
RegionOf(k, j) ==
  parse_peak_and_baseline_region(time_x(input_df), TheDonors[j].values, TheRows[k].PeakRange,
                                 TheRows[k].BaselineTime, TheRows[k].NegativePeak).value

\* the summary the peak integrator returns for a region under row k
SummaryOf(k, region) ==
  AUC_from_a_region(region[1], region[2], region[3], TheRows[k].MinHeightRatio,
                    TheRows[k].MinPeakLength).summary

\* the rows of kind peak with the index requested, of the given sign, whose
\* index column is in the returned table
IndexRows(negative) ==
  {k \in 1..Len(TheRows) :
     /\ IsPeakRow(TheRows[k])
     /\ TheRows[k].CalculateSIorII
     /\ TheRows[k].NegativePeak = negative
     /\ LastUnder(k, IndexTraitName(args.trait_prefix, TheRows[k]))}

CompleteDonors == {j \in 1..Len(TheDonors) : Complete(TheDonors[j].values)}

\* C1, as claimed: the stored SI is (baseline + maxHeight) / baseline for
\* baseline > 0 and missing otherwise, maxHeight being the max_height of the
\* summary the peak integrator returned.
C1_SIFromSummaryMaxHeight ==
  TableReturned =>
    \A k \in IndexRows(FALSE) : \A j \in CompleteDonors :
      \A region \in {RegionOf(k, j)} :
        Stored(IndexTraitName(args.trait_prefix, TheRows[k]))[j] =
          ExpectedSI(region[3], SummaryOf(k, region).max_height)

\* C1, amended: maxHeight is the largest corrected value of the whole peak
\* window, not below zero, whatever the length and height filters keep. A
\* table is returned only when every peak window of a complete donor holds a
\* sample: at the first empty one the call raises the ValueError.
C1_SIFromCurveMax ==
  /\ TableReturned =>
      \A k \in 1..Len(TheRows) : \A j \in CompleteDonors :
        IsPeakRow(TheRows[k]) => Len(RegionOf(k, j)[2]) > 0
  /\ (pc = "raised" /\ row_i >= 1) =>
      /\ raised = "ValueError"
      /\ IsPeakRow(TheRows[row_i])
      /\ donor_j \in CompleteDonors
      /\ RegionOf(row_i, donor_j)[2] = <<>>
  /\ TableReturned =>
       \A k \in IndexRows(FALSE) : \A j \in CompleteDonors :
         \A region \in {RegionOf(k, j)} :
           Stored(IndexTraitName(args.trait_prefix, TheRows[k]))[j] =
             ExpectedSI(region[3], ClampedCurveMax(region[2]))

\* the only run of the window is dropped for its length: the summary's
\* max_height is 0, the curve's maximum is not, and the SI is stored from
\* the latter
C1_Witness ==
  /\ TableReturned
  /\ \E k \in IndexRows(FALSE) : \E j \in CompleteDonors :
       \E region \in {RegionOf(k, j)} :
         /\ RGt(region[3], Zero)
         /\ SummaryOf(k, region).max_height = Zero
         /\ RGt(ClampedCurveMax(region[2]), Zero)
         /\ Stored(IndexTraitName(args.trait_prefix, TheRows[k]))[j] =
              RDiv(RAdd(region[3], ClampedCurveMax(region[2])), region[3])

\* C2, as claimed: the stored II is baseline / (baseline - maxHeight) when
\* (baseline - maxHeight) * baseline > 0 and missing otherwise, and for every
\* input the index is missing or a finite ratio: no error is raised while the
\* complete donor of such a row is processed.
C2_IIOrMissingNeverAnError ==
  /\ TableReturned =>
       \A k \in IndexRows(TRUE) : \A j \in CompleteDonors :
         \A region \in {RegionOf(k, j)} :
           \A stored \in {Stored(IndexTraitName(args.trait_prefix, TheRows[k]))[j]} :
             /\ stored = ExpectedII(region[3], ClampedCurveMax(region[2]))
             /\ stored = NA \/ IsNum(stored)
  /\ ~(/\ pc = "raised"
       /\ row_i \in 1..Len(TheRows)
       /\ donor_j \in CompleteDonors
       /\ IsPeakRow(TheRows[row_i])
       /\ TheRows[row_i].NegativePeak
       /\ TheRows[row_i].CalculateSIorII)

\* the input table without its donor j
WithoutDonor(j) ==
  SelectSeq(input_df, LAMBDA col : col.name # TheDonors[j].name)

\* a column of the returned table without its entry j
WithoutEntry(column, j) ==
  [i \in 1..(Len(column) - 1) |-> IF i < j THEN column[i] ELSE column[i + 1]]

\* C3: every trait of a donor with a missing sample is missing, in every
\* column of the returned table; and the table, less that donor, is the table
\* computed without the donor (which raises exactly when this call raised).
C3_IncompleteDonorIsMissingOnly ==
  /\ TableReturned =>
       \A j \in 1..Len(TheDonors) :
         ~Complete(TheDonors[j].values) =>
           /\ \A c \in 2..Len(ret) : ret[c].value[j] = NA
           /\ \A other \in {traits_for_all(WithoutDonor(j), parameter_df, args.trait_prefix)} :
                /\ other.error = ""
                /\ Len(other.value) = Len(ret)
                /\ \A c \in 1..Len(ret) :
                     /\ other.value[c].key = ret[c].key
                     /\ other.value[c].value = WithoutEntry(ret[c].value, j)
  /\ (pc = "raised" /\ row_i >= 1) =>
       \A j \in 1..Len(TheDonors) :
         ~Complete(TheDonors[j].values) =>
           traits_for_all(WithoutDonor(j), parameter_df, args.trait_prefix).error = raised

\* an incomplete donor first, a complete donor after it, and a peak row with
\* its index: the complete donor has its AUC and its index
C3_Witness ==
  /\ TableReturned
  /\ Len(TheDonors) = 2
  /\ ~Complete(TheDonors[1].values)
  /\ IsNum(TheDonors[1].values[2])
  /\ Complete(TheDonors[2].values)
  /\ Len(ret) = 3
  /\ ret[2].value[1] = NA
  /\ ret[3].value[1] = NA
  /\ IsNum(ret[2].value[2])
  /\ IsNum(ret[3].value[2])

\* the baseline range of row k holds no time point of the axis
EmptyBaseline(k) ==
  baseline_time_points(time_x(input_df), TheRows[k].BaselineTime).value = <<>>

\* C4, as claimed: when the baseline range resolves to no time point, the
\* trait of a complete donor is recorded as missing: the basal value of a
\* baseline row, the AUC (and the index) of a peak row.
C4_EmptyBaselineGivesMissingTraits ==
  TableReturned =>
    \A k \in 1..Len(TheRows) : \A j \in CompleteDonors :
      EmptyBaseline(k) =>
        \A key \in KeysOf(TheRows[k]) : LastUnder(k, key) => Missing(Stored(key)[j])

\* C5, as claimed: a parameter table that lacks a required column makes the
\* call fail with the AssertionError, whatever the input table, before any
\* donor or phase is processed and without a table.
C5_MissingColumnIsAssertionError ==
  (required_columns \ parameter_df.columns) # {} =>
    /\ pc \in {"start", "validate", "raised"}
    /\ row_i = 0 /\ donor_j = 0 /\ results = <<>> /\ all_results = <<>> /\ ret = <<>>
    /\ pc = "raised" => raised = "AssertionError"

\* C5, amended: ... with the AssertionError when the input table has a time
\* column; without one the KeyError of the input table is raised first.
C5_MissingColumnFailsBeforeProcessing ==
  (required_columns \ parameter_df.columns) # {} =>
    /\ pc \in {"start", "validate", "raised"}
    /\ row_i = 0 /\ donor_j = 0 /\ results = <<>> /\ all_results = <<>> /\ ret = <<>>
    /\ pc = "validate" => time_col_name(input_df) # {}
    /\ pc = "raised" =>
         raised = IF time_col_name(input_df) = {} THEN "KeyError" ELSE "AssertionError"

\* a table with donors and a parameter table without MinPeakLength: the
\* AssertionError
C5_Witness ==
  /\ pc = "raised"
  /\ raised = "AssertionError"
  /\ required_columns \ parameter_df.columns = {"MinPeakLength"}
  /\ Len(input_df) >= 3

\* ------------------------------------------------------------------------
\* Statements about parse_basal_secretion and parse_peak_and_baseline_region
\* ------------------------------------------------------------------------

\* the sum of the values at the indices of the set, from index i down
RECURSIVE SumAt(_, _, _)
SumAt(values, indices, i) ==
  IF i = 0 THEN Zero
  ELSE RAdd(IF i \in indices THEN values[i] ELSE Zero, SumAt(values, indices, i - 1))

\* the arithmetic mean of the values at the indices of the set, every index
\* once (NaN for no index)
ArithmeticMean(values, indices) ==
  IF indices = {} THEN NaN
  ELSE RDiv(SumAt(values, indices, Len(values)), R(Cardinality(indices)))

\* the samples whose time is a point of the range specification
ResolvedSamples ==
  {i \in 1..Len(args.entire_x) :
     args.entire_x[i] \in StructurePoints(args.entire_x, args.structure)}

\* the time is a point of two pieces of the range specification
CoveredTwice(t) ==
  \E k, l \in 1..Len(args.structure) :
    /\ k # l
    /\ t \in PiecePoints(args.entire_x, args.structure[k])
    /\ t \in PiecePoints(args.entire_x, args.structure[l])

\* C11: parse_basal_secretion returns the arithmetic mean of the values of
\* exactly the samples whose time is in the resolved set, each sample once
\* however many pieces cover it; over a range that covers the whole axis it
\* is the arithmetic mean of all values.
C11_MeanOfResolvedSamples ==
  (pc = "basal_return" /\ args.structure # <<>>) =>
    /\ raised = ""
    /\ ret = ArithmeticMean(args.entire_y, ResolvedSamples)
    /\ (ResolvedSamples = 1..Len(args.entire_x) /\ Len(args.entire_x) > 0) =>
         ret = RDiv(SumAt(args.entire_y, 1..Len(args.entire_y), Len(args.entire_y)),
                    R(Len(args.entire_y)))

\* a sample covered by two pieces next to a sample covered by one
C11_Witness ==
  /\ pc = "basal_return"
  /\ args.structure # <<>>
  /\ \E i, j \in ResolvedSamples :
       /\ CoveredTwice(args.entire_x[i])
       /\ ~CoveredTwice(args.entire_x[j])
       /\ args.entire_y[i] # args.entire_y[j]
  /\ IsNum(ret)

\* a range that covers the whole axis, for the second half of C11
C11_WholeAxis ==
  /\ pc = "basal_return"
  /\ Len(args.entire_x) >= 3
  /\ ResolvedSamples = 1..Len(args.entire_x)
  /\ IsNum(ret)

\* the interval <<start, end>> the peak range text was written from
PeakInterval ==
  CHOOSE piece \in {<<2, 3>>, <<3, 10>>, <<10, 12>>} : RangeText(<<piece>>) = args.peak_range

\* the samples of the peak window
WindowSamples ==
  {i \in 1..Len(args.entire_x) :
     /\ RLe(R(PeakInterval[1]), args.entire_x[i])
     /\ RLe(args.entire_x[i], R(PeakInterval[2]))}

\* the k-th sample of a set of samples, in the order of the axis
KthOf(samples, k) == CHOOSE i \in samples : Cardinality({j \in samples : j < i}) = k - 1

\* C12: parse_peak_and_baseline_region returns the times of the samples with
\* start <= time <= end of the peak range, in the order of the axis; a
\* corrected sequence of the same length with baseline - value for a negative
\* peak and value - baseline otherwise; and the mean of the values over the
\* baseline range, wherever that range lies.
C12_RegionOfPeakWindow ==
  (pc = "region_return" /\ args.structure # <<>>) =>
    /\ raised = ""
    /\ Len(ret) = 3
    /\ ret[3] = ArithmeticMean(args.entire_y, ResolvedSamples)
    /\ Len(ret[1]) = Cardinality(WindowSamples)
    /\ Len(ret[2]) = Len(ret[1])
    /\ \A k \in 1..Len(ret[1]) :
         \A i \in {KthOf(WindowSamples, k)} :
           /\ ret[1][k] = args.entire_x[i]
           /\ ret[2][k] = IF args.negative_peak
                          THEN RSub(ret[3], args.entire_y[i])
                          ELSE RSub(args.entire_y[i], ret[3])

\* a negative peak over a window of several samples that leaves samples out,
\* with its baseline taken outside the window
C12_Witness ==
  /\ pc = "region_return"
  /\ args.structure # <<>>
  /\ args.negative_peak
  /\ Cardinality(WindowSamples) >= 2
  /\ Cardinality(WindowSamples) < Len(args.entire_x)
  /\ ResolvedSamples # {}
  /\ ResolvedSamples \cap WindowSamples = {}
  /\ Len(ret[2]) >= 2
  /\ ret[2][1] # ret[2][2]
  /\ ret[2][1] # Zero

\* ------------------------------------------------------------------------
\* Statements about the table traits_for_all returns
\* ------------------------------------------------------------------------

\* the column names of a parameter row, in the order they are stored
ColumnsOfRow(row) ==
  IF ~IsPeakRow(row) THEN <<BasalTraitName(args.trait_prefix, row)>>
  ELSE <<AUCTraitName(args.trait_prefix, row)>> \o
       (IF row.CalculateSIorII
        THEN <<args.trait_prefix \o " " \o row.PeakName \o
               (IF row.NegativePeak THEN " II" ELSE " SI")>>
        ELSE <<>>)

\* the column names of the rows from row k on
RECURSIVE ColumnsFrom(_, _)
ColumnsFrom(rows, k) ==
  IF k > Len(rows) THEN <<>> ELSE ColumnsOfRow(rows[k]) \o ColumnsFrom(rows, k + 1)

\* the input columns that are not the first column named like the time
DonorNames ==
  LET first_time == CHOOSE i \in 1..Len(input_df) :
                      /\ HasSubstring(PyLower(input_df[i].name), <<"t", "i", "m", "e">>)
                      /\ \A j \in 1..(i - 1) :
                           ~HasSubstring(PyLower(input_df[j].name), <<"t", "i", "m", "e">>)
      others == SelectSeq([i \in 1..Len(input_df) |-> i], LAMBDA i : i # first_time)
  IN  [j \in 1..Len(others) |-> input_df[others[j]].name]

\* C13, as claimed: the returned table has one row per donor in input column
\* order, a first column Donor ID, and then for each parameter row, in row
\* order, its basal column, or its AUC column followed by its SI / II column
\* exactly when CalculateSIorII is set.
C13_OneColumnPerRowInOrder ==
  TableReturned =>
    /\ Len(ret) >= 1
    /\ ret[1].key = "Donor ID"
    /\ ret[1].value = DonorNames
    /\ \A c \in 1..Len(ret) : Len(ret[c].value) = Len(DonorNames)
    /\ [c \in 1..(Len(ret) - 1) |-> ret[c + 1].key] = ColumnsFrom(TheRows, 1)

\* the positions of the input columns whose name contains "time" in any case
TimeLike ==
  {c \in 1..Len(input_df) :
     \E i \in 0..(Len(input_df[c].name) - 4) :
       /\ input_df[c].name[i + 1] \in {"t", "T"}
       /\ input_df[c].name[i + 2] \in {"i", "I"}
       /\ input_df[c].name[i + 3] \in {"m", "M"}
       /\ input_df[c].name[i + 4] \in {"e", "E"}}

\* the first of them, and the other columns of the table in their order
AxisColumn == CHOOSE c \in TimeLike : \A d \in TimeLike : c <= d

OtherColumns ==
  LET others == SelectSeq([c \in 1..Len(input_df) |-> c], LAMBDA c : c # AxisColumn)
  IN  [j \in 1..Len(others) |-> input_df[others[j]]]

\* C14: without a column whose name contains "time" in any case, the call
\* raises the KeyError before anything is processed and returns no table;
\* with one, no KeyError is raised, the (first) such column is the time axis
\* and every other column of the table is one donor, in the table's order.
C14_TimeColumnOrKeyError ==
  /\ TimeLike = {} =>
       /\ pc \in {"start", "raised"}
       /\ pc = "raised" => raised = "KeyError"
       /\ row_i = 0 /\ donor_j = 0 /\ all_results = <<>> /\ ret = <<>>
  /\ TimeLike # {} =>
       /\ raised # "KeyError"
       /\ pc # "start" => time_x(input_df) = input_df[AxisColumn].values
       /\ TableReturned =>
            /\ ret[1].value = [j \in 1..Len(OtherColumns) |-> OtherColumns[j].name]
            /\ \A expected \in {AllRows(input_df[AxisColumn].values, OtherColumns, TheRows,
                                        args.trait_prefix, 1, <<ret[1]>>)} :
                 /\ expected.error = ""
                 /\ Len(expected.value) = Len(ret)
                 /\ \A c \in 1..Len(ret) :
                      /\ expected.value[c].key = ret[c].key
                      /\ expected.value[c].value = ret[c].value

\* two columns are named like the time and the first of them is not the
\* first column: the donor before it and the one named "time" both have a
\* basal value, taken on the axis of the first
C14_Witness ==
  /\ TableReturned
  /\ Cardinality(TimeLike) = 2
  /\ AxisColumn = 2
  /\ Len(ret) = 2
  /\ Len(ret[1].value) = 2
  /\ ret[1].value[2] = <<"t", "i", "m", "e">>
  /\ IsNum(ret[2].value[1])
  /\ IsNum(ret[2].value[2])

\* the KeyError of a table without a time column, for the first half of C14
C14_KeyErrorRaised ==
  /\ pc = "raised"
  /\ raised = "KeyError"
  /\ TimeLike = {}
  /\ missing_columns(parameter_df.columns) = {}

\* ------------------------------------------------------------------------
\* Statements about the boundaries and the order of the peaks
\* ------------------------------------------------------------------------

\* the triangle between a boundary and the sample next to it
Triangle(width, height) == RDiv(RMul(width, height), R(2))

\* C15: a surviving run that starts at the first sample of the curve starts
\* at that sample's time and has no left partial area; one that ends at the
\* last sample ends at that sample's time and has no right partial area.
C15_NoExtrapolationAtTheWindow ==
  AUCReturned =>
    LET x == args.x_curve
        y == args.y_corrected_curve
        runs == ArgSurvivors
    IN  /\ Len(ret.peak_info) = Len(runs)
        /\ \A k \in 1..Len(runs) :
             \A peak \in {ret.peak_info[k]} : \A r \in {runs[k]} :
               /\ r[1] = 1 =>
                    /\ peak[1] = x[1]
                    /\ peak[5] = RAdd(TrapezoidSum(x, y, r),
                                      Triangle(RSub(peak[2], x[r[2]]), y[r[2]]))
               /\ r[2] = Len(y) =>
                    /\ peak[2] = x[Len(y)]
                    /\ peak[5] = RAdd(TrapezoidSum(x, y, r),
                                      Triangle(RSub(x[r[1]], peak[1]), y[r[1]]))
               /\ (r[1] = 1 /\ r[2] = Len(y)) => peak[5] = TrapezoidSum(x, y, r)

\* a run from the first sample whose value differs from the last sample's,
\* and a run up to the last sample that is interpolated on its left
C15_Witness ==
  /\ AUCReturned
  /\ Len(ret.peak_info) = Len(ArgSurvivors)
  /\ \E k \in 1..Len(ArgSurvivors) :
       /\ ArgSurvivors[k][1] = 1
       /\ ArgSurvivors[k][2] < Len(args.y_corrected_curve)
       /\ InterpolatesRight(args.y_corrected_curve, ArgSurvivors[k])
       /\ ret.peak_info[k][1] = args.x_curve[1]
  /\ \E k \in 1..Len(ArgSurvivors) :
       /\ ArgSurvivors[k][1] > 1
       /\ ArgSurvivors[k][2] = Len(args.y_corrected_curve)
       /\ InterpolatesLeft(args.y_corrected_curve, ArgSurvivors[k])
       /\ ret.peak_info[k][2] = args.x_curve[Len(args.x_curve)]
  /\ args.y_corrected_curve[1] # args.y_corrected_curve[Len(args.y_corrected_curve)]

\* C16, as claimed: one peak per surviving run, and for any two peaks the one
\* emitted earlier has the smaller start, the smaller peak time and the
\* smaller end, on every ascending axis.
C16_PeaksInAscendingTimeOrder ==
  AUCReturned =>
    /\ Len(ret.peak_info) = Len(ArgSurvivors)
    /\ \A k, l \in 1..Len(ret.peak_info) :
         k < l =>
           /\ RLt(ret.peak_info[k][1], ret.peak_info[l][1])
           /\ RLt(ret.peak_info[k][3], ret.peak_info[l][3])
           /\ RLt(ret.peak_info[k][2], ret.peak_info[l][2])

\* the interval [first, second] holds t
Between(first, t, second) == RLe(first, t) /\ RLe(t, second)

\* C17, as claimed: an interpolated start lies between the sample before the
\* run and the run's first sample, an interpolated end between the run's last
\* sample and the one after it; hence the peaks' intervals do not overlap and
\* lie inside the curve's axis.
C17_BoundariesBetweenTheirSamples ==
  AUCReturned =>
    LET x == args.x_curve
        runs == ArgSurvivors
    IN  /\ Len(ret.peak_info) = Len(runs)
        /\ \A k \in 1..Len(runs) :
             /\ runs[k][1] > 1 => Between(x[runs[k][1] - 1], ret.peak_info[k][1], x[runs[k][1]])
             /\ runs[k][2] < Len(x) => Between(x[runs[k][2]], ret.peak_info[k][2], x[runs[k][2] + 1])
             /\ Between(x[1], ret.peak_info[k][1], x[Len(x)])
             /\ Between(x[1], ret.peak_info[k][2], x[Len(x)])
        /\ \A k, l \in 1..Len(runs) :
             k < l => RLe(ret.peak_info[k][2], ret.peak_info[l][1])

\* ------------------------------------------------------------------------
\* Statements about a peak window without a time point
\* ------------------------------------------------------------------------

\* the peak window of row k holds no sample of donor j
EmptyWindow(k, j) == IsPeakRow(TheRows[k]) /\ RegionOf(k, j)[2] = <<>>

\* C18, as claimed: a peak row whose window holds no time point of the axis
\* raises nothing; the call completes, and the AUC of every complete donor in
\* that row is 0, the total area of the peak integrator for an empty curve.
C18_EmptyWindowCompletesWithZeroAUC ==
  /\ ~(/\ pc = "raised"
       /\ row_i \in 1..Len(TheRows)
       /\ donor_j \in CompleteDonors
       /\ EmptyWindow(row_i, donor_j))
  /\ TableReturned =>
       \A k \in 1..Len(TheRows) : \A j \in CompleteDonors :
         (EmptyWindow(k, j) /\ LastUnder(k, AUCTraitName(args.trait_prefix, TheRows[k]))) =>
           /\ Stored(AUCTraitName(args.trait_prefix, TheRows[k]))[j] = Zero
           /\ AUC_from_a_region(<<>>, <<>>, RegionOf(k, j)[3], TheRows[k].MinHeightRatio,
                                TheRows[k].MinPeakLength).summary.total_area = Zero

====
